---- MODULE Spec2Model ----
(***************************************************************************)
(* Model of sushichef.py, the Stanford Digital Medic importer.             *)
(*                                                                         *)
(* One run of the program is construct_channel: scrape_english_collection  *)
(* followed by scrape_multilanguage_slideshows.  Every downloader.read is  *)
(* a step that either returns a document of the site or raises; the disk   *)
(* (the documents/ folder) is the only state that survives between runs.   *)
(***************************************************************************)
EXTENDS Integers, Sequences, FiniteSets, TLC

(* ---- bounds of the model ---- *)
MaxSections == 2    \* sections the two collection pages list, together
MaxAssets == 3      \* assets the sections of the site hold, together
PageSize == 2       \* assets the API returns for one request without a page parameter

(* ---- program constants ---- *)
\* variant: only the first id is excluded
ExcludedFirstOnly == {262354}
EXCLUDED_TOPIC_IDS == {262354, 261412}
DOCUMENT_DOWNLOAD_DIR == "documents"
SLIDESHOW_COLLECTION == "qac6i4-foozd4-68u325"
None == "None"

LANGUAGE_MAP ==
  [n \in {"Afrikaans", "Arabic", "English", "French", "Hindi", "isiXhosa",
          "isiZulu", "Kiswahili", "Mandarin Chinese - simple",
          "Mandarin Chinese - Traditional", "Portuguese", "Setswana",
          "Spanish", "Tetun"} |->
     CASE n = "Afrikaans" -> "af"
       [] n = "Arabic" -> "ar"
       [] n = "English" -> "en"
       [] n = "French" -> "fr"
       [] n = "Hindi" -> "hi"
       [] n = "isiXhosa" -> "xh"
       [] n = "isiZulu" -> "zul"
       [] n = "Kiswahili" -> "sw"
       [] n = "Mandarin Chinese - simple" -> "zh-CN"
       [] n = "Mandarin Chinese - Traditional" -> "zh-Hant"
       [] n = "Portuguese" -> "pt"
       [] n = "Setswana" -> "tn"
       [] n = "Spanish" -> "es"
       [] n = "Tetun" -> None]

\* languages.getlang(code).native_name, for the codes of LANGUAGE_MAP
native_name(code) ==
  CASE code = "af" -> "Afrikaans"
    [] code = "ar" -> "al-Arabiyyah"
    [] code = "en" -> "English"
    [] code = "fr" -> "Francais"
    [] code = "hi" -> "Hindi (native)"
    [] code = "xh" -> "isiXhosa"
    [] code = "zul" -> "isiZulu"
    [] code = "sw" -> "Kiswahili"
    [] code = "zh-CN" -> "Zhongwen (jianti)"
    [] code = "zh-Hant" -> "Zhongwen (fanti)"
    [] code = "pt" -> "Portugues"
    [] code = "tn" -> "Setswana"
    [] code = "es" -> "Espanol"

(* ---- the site ---- *)
Extensions == {"png", "mp4", "pdf"}

\* extensions of the assets of a language section: the code never looks at them
LanguageExtensions == {"png", "mp4"}

\* sections the English collection page can list: [id, section_key, name]
EnglishSections ==
  { [id |-> 262354, section_key |-> "e-x1", name |-> "Excluded one"],
    [id |-> 261412, section_key |-> "e-x2", name |-> "Excluded two"],
    [id |-> 1,      section_key |-> "e-a",  name |-> "Topic A"],
    [id |-> 2,      section_key |-> "e-b",  name |-> "Topic B"] }

\* sections the multi-language page can list
LanguageSections ==
  { [id |-> 11, section_key |-> "l-fr", name |-> "French"],
    [id |-> 12, section_key |-> "l-tet", name |-> "Tetun"],
    [id |-> 13, section_key |-> "l-kl", name |-> "Klingon"] }

SeqsUpTo(S, n) == UNION { [1..k -> S] : k \in 0..n }

NoDup(s) == \A i, j \in 1..Len(s) : i # j => s[i] # s[j]

\* the lists of at most n sections a collection page can embed (section keys are unique)
SectionLists(S, n) == { s \in SeqsUpTo(S, n) : NoDup(s) }

(* ---- URLs ---- *)
URL(api, collection, section, asset, file) ==
  [api |-> api, collection |-> collection, section |-> section,
   asset |-> asset, file |-> file]

ENGLISH_COLLECTION_URL == URL("page", "covid-19", "", 0, "")
SLIDESHOWS_URL == URL("page", "covid-19-multiple-languages", "", 0, "")
ENGLISH_ASSETS_URL(collection, section) ==
  URL("assets", collection, section, 0, "search=")
SLIDESHOW_ASSETS_URL(collection, section) ==
  URL("assets", collection, section, 0, "strict_search=false")
FILE_STORAGE_URL(id) == URL("attachments", "", id.section, id.pos, "")

\* the asset at position k of a section of the site
SiteAsset(section, k, ext) ==
  [id |-> [section |-> section, pos |-> k],
   extension |-> ext,
   name |-> "asset-" \o section \o "-" \o ToString(k),
   thumbnail_url |-> URL("cdn", "", section, k, "element.png")]

SiteAssets(section, exts) ==
  [k \in 1..Len(exts) |-> SiteAsset(section, k, exts[k])]

\* what one request of an assets URL returns: the URLs carry neither a page
\* nor a per-page parameter, so the API answers with its first page
ApiResponse(siteAssets) ==
  SubSeq(siteAssets, 1, IF Len(siteAssets) < PageSize THEN Len(siteAssets) ELSE PageSize)

\* the attachment record of a video asset
VideoData(id) ==
  [url |-> URL("cdn", "", id.section, id.pos, "video.mp4"),
   thumbnail_url |-> URL("cdn", "", id.section, id.pos, "video.jpg")]

\* str.replace('element.png', 'view@2x.png') on a thumbnail URL
ReplaceElement(u) ==
  IF u.file = "element.png" THEN [u EXCEPT !.file = "view@2x.png"] ELSE u

(* ---- ricecooker files and nodes ---- *)
ThumbnailFile(u) == [type |-> "thumbnail", src |-> u, caption |-> ""]
SlideImageFile(u, caption) == [type |-> "slide", src |-> u, caption |-> caption]
VideoFile(u) == [type |-> "video", src |-> u, caption |-> ""]
DocumentFile(path) == [type |-> "document", src |-> path, caption |-> ""]

Node(kind, source_id, title, language, fs) ==
  [kind |-> kind, source_id |-> source_id, title |-> title,
   language |-> language, files |-> fs, children |-> <<>>]

TopicNode(source_id, title) == Node("topic", source_id, title, None, <<>>)
VideoNode(source_id, title, fs) == Node("video", source_id, title, None, fs)
\* variant: the '--slides' branch builds a document node as well
SlideshowNodeAsDocument(source_id, title, language, fs) == Node("document", source_id, title, language, fs)
SlideshowNode(source_id, title, language, fs) == Node("slideshow", source_id, title, language, fs)
DocumentNode(source_id, title, language, fs) == Node("document", source_id, title, language, fs)

\* images: {url, caption}; an image without caption has caption ''
ImageDict(u, caption) == [url |-> u, caption |-> caption]

\* documents/<md5(source_id)>.pdf
PdfPath(source_id) == [dir |-> DOCUMENT_DOWNLOAD_DIR, md5 |-> source_id]

Read(u, ok) == [url |-> u, ok |-> ok]

\* variant: the check of the path never finds the file
PdfExistsNever(pdfpath, d) == FALSE

\* os.path.exists(pdfpath) on the disk d
PdfExists(pdfpath, d) == pdfpath \in DOMAIN d

\* create_slideshow(images, source_id, title, language_name) run with the
\* arguments slidesArg ('--slides' in sys.argv) on the disk d; failAt = k > 0
\* makes the download of the k-th image raise, 0 lets every download succeed.
\* The result: did it raise, the node returned, the disk and the reads made.
create_slideshow(images, source_id, title, language_name, slidesArg, d, failAt) ==
  LET thumbnailFile == ThumbnailFile(images[1].url)
      known == language_name \in DOMAIN LANGUAGE_MAP
      language == IF known THEN LANGUAGE_MAP[language_name] ELSE None
      pdfpath == PdfPath(source_id)
      exists == PdfExists(pdfpath, d)
      last == IF failAt > 0 THEN failAt ELSE Len(images)
      reads == [k \in 1..last |-> Read(images[k].url, k # failAt)]
      image_list == [k \in 1..Len(images) |-> images[k].url]
  IN IF slidesArg
     THEN [raised |-> ~known,
           node |-> SlideshowNode(source_id, title, language,
                      <<thumbnailFile>> \o
                      [k \in 1..Len(images) |-> SlideImageFile(images[k].url, images[k].caption)]),
           disk |-> d, reads |-> <<>>]
     ELSE IF exists
     THEN [raised |-> ~known,
           node |-> DocumentNode(source_id, title, language,
                      <<thumbnailFile, DocumentFile(pdfpath)>>),
           disk |-> d, reads |-> <<>>]
     ELSE [raised |-> failAt > 0 \/ ~known,
           node |-> DocumentNode(source_id, title, language,
                      <<thumbnailFile, DocumentFile(pdfpath)>>),
           disk |-> IF failAt > 0 THEN d ELSE (pdfpath :> image_list) @@ d,
           reads |-> reads]

(* ---- state ---- *)
VARIABLES
  pc,             \* position of the run in construct_channel
  slides,         \* '--slides' in sys.argv of this run
  disk,           \* documents/: path -> pages of the PDF stored there
  disk0,          \* documents/ as the run found it
  requests,       \* downloader.read calls of this run, in order
  channel,        \* children of the ChannelNode
  returned,       \* construct_channel returned the channel
  topic_list,     \* scrape_english_collection: sections after the exclusion
  ti,             \* index of the current topic
  assets,         \* scrape_collection_files: the 'data' of the response
  ai,             \* index of the current asset
  images,         \* scrape_collection_files: images collected so far
  warnings,       \* LOGGER.warning calls of this run
  language_list,  \* scrape_multilanguage_slideshows: sections of the page
  li,             \* index of the current language
  slide_data,     \* the 'data' of the current language's response
  fetched,        \* asset lists answered in this run: url, assets on the site, data returned
  pages           \* section lists the two pages embedded in this run

vars == <<pc, slides, disk, disk0, requests, channel, returned, topic_list, ti,
          assets, ai, images, warnings, language_list, li, slide_data, fetched, pages>>

runvars == <<slides, disk, disk0>>
engvars == <<topic_list, ti, assets, ai, images, warnings>>
langvars == <<language_list, li, slide_data>>

EmptyDisk == [p \in {} |-> <<>>]

RECURSIVE SumOnSite(_)
SumOnSite(f) == IF f = <<>> THEN 0 ELSE f[1].onSite + SumOnSite(Tail(f))

\* the asset lists a section of the site can hold, given what the sections
\* read before it hold
SiteExtensions == SeqsUpTo(Extensions, MaxAssets)

\* the documents/ folder an earlier run without '--slides' leaves, when the
\* sections e-a and l-fr each answered one png asset
OldImages(section) ==
  <<ImageDict(ReplaceElement(SiteAsset(section, 1, "png").thumbnail_url), "")>>

OldDisk ==
  LET d1 == create_slideshow(OldImages("e-a"), ENGLISH_ASSETS_URL("ck-english", "e-a"),
                             "Topic A", "English", FALSE, EmptyDisk, 0).disk
  IN create_slideshow(OldImages("l-fr"), SLIDESHOW_ASSETS_URL(SLIDESHOW_COLLECTION, "l-fr"),
                      "Francais", "French", FALSE, d1, 0).disk

\* chef.main(): a run starts with the command line's arguments and with the
\* documents/ folder as the earlier runs left it
Init ==
  /\ pc = "eng_page"
  /\ slides \in BOOLEAN
  /\ disk \in {EmptyDisk, OldDisk}
  /\ disk0 = disk
  /\ requests = <<>>
  /\ channel = <<>>
  /\ returned = FALSE
  /\ topic_list = <<>>
  /\ ti = 1
  /\ assets = <<>>
  /\ ai = 1
  /\ images = <<>>
  /\ warnings = 0
  /\ language_list = <<>>
  /\ li = 1
  /\ slide_data = <<>>
  /\ fetched = <<>>
  /\ pages = <<>>

\* variant: the exception is caught and the channel built so far is returned
RaiseAndReturn ==
  /\ pc' = "done"
  /\ returned' = TRUE

\* an exception leaves construct_channel: nothing catches it
Raise ==
  /\ pc' = "failed"
  /\ returned' = FALSE

NotExcluded(t) == t.id \notin EXCLUDED_TOPIC_IDS

\* scrape_english_collection, up to the topic loop
EngPage ==
  /\ pc = "eng_page"
  /\ \E sections \in SectionLists(EnglishSections, MaxSections) :
       /\ requests' = Append(requests, Read(ENGLISH_COLLECTION_URL, TRUE))
       /\ topic_list' = SelectSeq(sections, NotExcluded)
       /\ pages' = Append(pages, sections)
       /\ ti' = 1
       /\ pc' = IF topic_list' = <<>> THEN "lang_page" ELSE "eng_topic"
  /\ UNCHANGED <<runvars, channel, returned, assets, ai, images, warnings, langvars, fetched>>

EngPageFails ==
  /\ pc = "eng_page"
  /\ requests' = Append(requests, Read(ENGLISH_COLLECTION_URL, FALSE))
  /\ Raise
  /\ UNCHANGED <<runvars, channel, engvars, langvars, fetched, pages>>

\* the topic loop: the topic node is added to the channel
EngAddTopic ==
  /\ pc = "eng_topic"
  /\ channel' = Append(channel, TopicNode(topic_list[ti].section_key, topic_list[ti].name))
  /\ pc' = "eng_fetch"
  /\ UNCHANGED <<runvars, requests, returned, engvars, langvars, fetched, pages>>

TopicUrl == ENGLISH_ASSETS_URL("ck-english", topic_list[ti].section_key)

\* scrape_collection_files: the asset list is read
EngFetchAssets ==
  /\ pc = "eng_fetch"
  /\ \E exts \in SiteExtensions :
       LET site == SiteAssets(topic_list[ti].section_key, exts)
       IN /\ SumOnSite(fetched) + Len(exts) <= MaxAssets
          /\ assets' = ApiResponse(site)
          /\ fetched' = Append(fetched, [url |-> TopicUrl, onSite |-> Len(site), data |-> ApiResponse(site)])
  /\ requests' = Append(requests, Read(TopicUrl, TRUE))
  /\ images' = <<>>
  /\ ai' = 1
  /\ pc' = "eng_asset"
  /\ UNCHANGED <<runvars, channel, returned, topic_list, ti, warnings, langvars, pages>>

EngFetchAssetsFails ==
  /\ pc = "eng_fetch"
  /\ requests' = Append(requests, Read(TopicUrl, FALSE))
  /\ Raise
  /\ UNCHANGED <<runvars, channel, engvars, langvars, fetched, pages>>

\* variant: the node is added below the topic's last child
AddToTopicNested(node) ==
  LET topic == channel[Len(channel)]
      n == Len(topic.children)
  IN IF n = 0
     THEN [channel EXCEPT ![Len(channel)].children = <<node>>]
     ELSE [channel EXCEPT ![Len(channel)].children[n].children = Append(@, node)]

\* variant: the node becomes the topic's first child
AddToTopicFront(node) ==
  [channel EXCEPT ![Len(channel)].children = <<node>> \o @]

AddToTopic(node) ==
  [channel EXCEPT ![Len(channel)].children = Append(@, node)]

InAssetLoop == pc = "eng_asset" /\ ai <= Len(assets)

\* variant: the image is put in front of the images collected so far
EngAssetPngPrepend ==
  /\ InAssetLoop
  /\ assets[ai].extension = "png"
  /\ images' = <<ImageDict(ReplaceElement(assets[ai].thumbnail_url), assets[ai].name)>> \o images
  /\ ai' = ai + 1
  /\ UNCHANGED <<pc, runvars, requests, channel, returned, topic_list, ti, assets, warnings, langvars, fetched, pages>>

\* extension == 'png'
EngAssetPng ==
  /\ InAssetLoop
  /\ assets[ai].extension = "png"
  /\ images' = Append(images, ImageDict(ReplaceElement(assets[ai].thumbnail_url), assets[ai].name))
  /\ ai' = ai + 1
  /\ UNCHANGED <<pc, runvars, requests, channel, returned, topic_list, ti, assets, warnings, langvars, fetched, pages>>

\* extension == 'mp4'
EngAssetMp4 ==
  /\ InAssetLoop
  /\ assets[ai].extension = "mp4"
  /\ requests' = Append(requests, Read(FILE_STORAGE_URL(assets[ai].id), TRUE))
  /\ LET video == VideoData(assets[ai].id)
     IN channel' = AddToTopic(VideoNode(video.url, assets[ai].name,
                      <<VideoFile(video.url), ThumbnailFile(video.thumbnail_url)>>))
  /\ ai' = ai + 1
  /\ UNCHANGED <<pc, runvars, returned, topic_list, ti, assets, images, warnings, langvars, fetched, pages>>

EngAssetMp4Fails ==
  /\ InAssetLoop
  /\ assets[ai].extension = "mp4"
  /\ requests' = Append(requests, Read(FILE_STORAGE_URL(assets[ai].id), FALSE))
  /\ Raise
  /\ UNCHANGED <<runvars, channel, engvars, langvars, fetched, pages>>

\* variant: an asset of another extension ends the loop
EngAssetOtherBreak ==
  /\ InAssetLoop
  /\ assets[ai].extension \notin {"png", "mp4"}
  /\ warnings' = warnings + 1
  /\ ai' = Len(assets) + 1
  /\ UNCHANGED <<pc, runvars, requests, channel, returned, topic_list, ti, assets, images, langvars, fetched, pages>>

\* any other extension
EngAssetOther ==
  /\ InAssetLoop
  /\ assets[ai].extension \notin {"png", "mp4"}
  /\ warnings' = warnings + 1
  /\ ai' = ai + 1
  /\ UNCHANGED <<pc, runvars, requests, channel, returned, topic_list, ti, assets, images, langvars, fetched, pages>>

AfterTopic == IF ti + 1 > Len(topic_list) THEN "lang_page" ELSE "eng_topic"

\* after the asset loop: no image, no slideshow
EngFinishEmpty ==
  /\ pc = "eng_asset" /\ ai > Len(assets)
  /\ Len(images) = 0
  /\ ti' = ti + 1
  /\ pc' = AfterTopic
  /\ UNCHANGED <<runvars, requests, channel, returned, topic_list, assets, ai, images, warnings, langvars, fetched, pages>>

\* after the asset loop: the images become the topic's slideshow or document
EngFinish ==
  /\ pc = "eng_asset" /\ ai > Len(assets)
  /\ Len(images) > 0
  /\ \E failAt \in 0..Len(images) :
       LET r == create_slideshow(images, TopicUrl, channel[Len(channel)].title,
                                 "English", slides, disk, failAt)
       IN /\ requests' = requests \o r.reads
          /\ disk' = r.disk
          /\ IF r.raised
             THEN /\ Raise
                  /\ UNCHANGED <<channel, ti>>
             ELSE /\ channel' = AddToTopic(r.node)
                  /\ ti' = ti + 1
                  /\ pc' = AfterTopic
                  /\ UNCHANGED returned
  /\ UNCHANGED <<slides, disk0, topic_list, assets, ai, images, warnings, langvars, fetched, pages>>

\* scrape_multilanguage_slideshows, up to the language loop
LangPage ==
  /\ pc = "lang_page"
  /\ \E sections \in SectionLists(LanguageSections, MaxSections - Len(pages[1])) :
       /\ language_list' = sections
       /\ pages' = Append(pages, sections)
       /\ pc' = IF sections = <<>> THEN "return" ELSE "lang_fetch"
  /\ requests' = Append(requests, Read(SLIDESHOWS_URL, TRUE))
  /\ li' = 1
  /\ UNCHANGED <<runvars, channel, returned, engvars, slide_data, fetched>>

LangPageFails ==
  /\ pc = "lang_page"
  /\ requests' = Append(requests, Read(SLIDESHOWS_URL, FALSE))
  /\ Raise
  /\ UNCHANGED <<runvars, channel, engvars, langvars, fetched, pages>>

asset_url == SLIDESHOW_ASSETS_URL(SLIDESHOW_COLLECTION, language_list[li].section_key)

\* the language loop: the section's asset list is read
LangFetch ==
  /\ pc = "lang_fetch"
  /\ \E exts \in SeqsUpTo(LanguageExtensions, MaxAssets) :
       LET site == SiteAssets(language_list[li].section_key, exts)
       IN /\ SumOnSite(fetched) + Len(exts) <= MaxAssets
          /\ slide_data' = ApiResponse(site)
          /\ fetched' = Append(fetched, [url |-> asset_url, onSite |-> Len(site), data |-> ApiResponse(site)])
  /\ requests' = Append(requests, Read(asset_url, TRUE))
  /\ pc' = "lang_build"
  /\ UNCHANGED <<runvars, channel, returned, engvars, language_list, li, pages>>

LangFetchFails ==
  /\ pc = "lang_fetch"
  /\ requests' = Append(requests, Read(asset_url, FALSE))
  /\ Raise
  /\ UNCHANGED <<runvars, channel, engvars, langvars, fetched, pages>>

\* LANGUAGE_MAP[language['name']] for a name the table does not have
LangKeyError ==
  /\ pc = "lang_build"
  /\ language_list[li].name \notin DOMAIN LANGUAGE_MAP
  /\ Raise
  /\ UNCHANGED <<runvars, requests, channel, engvars, langvars, fetched, pages>>

\* variant: the section's own name is the title
translated_name_raw == language_list[li].name

translated_name ==
  LET name == language_list[li].name
  IN IF LANGUAGE_MAP[name] # None THEN native_name(LANGUAGE_MAP[name]) ELSE name

\* every asset of the response is a slide, without caption
Slides(data) ==
  [k \in 1..Len(data) |-> ImageDict(ReplaceElement(data[k].thumbnail_url), "")]

AfterLanguage == IF li + 1 > Len(language_list) THEN "return" ELSE "lang_fetch"

\* a language without slides adds nothing
LangSkip ==
  /\ pc = "lang_build"
  /\ language_list[li].name \in DOMAIN LANGUAGE_MAP
  /\ Len(Slides(slide_data)) = 0
  /\ li' = li + 1
  /\ pc' = AfterLanguage
  /\ UNCHANGED <<runvars, requests, channel, returned, engvars, language_list, slide_data, fetched, pages>>

\* the slides become the language's slideshow or document, a child of the channel
LangAdd ==
  /\ pc = "lang_build"
  /\ language_list[li].name \in DOMAIN LANGUAGE_MAP
  /\ Len(Slides(slide_data)) > 0
  /\ \E failAt \in 0..Len(slide_data) :
       LET r == create_slideshow(Slides(slide_data), asset_url, translated_name,
                                 language_list[li].name, slides, disk, failAt)
       IN /\ requests' = requests \o r.reads
          /\ disk' = r.disk
          /\ IF r.raised
             THEN /\ Raise
                  /\ UNCHANGED <<channel, li>>
             ELSE /\ channel' = Append(channel, r.node)
                  /\ li' = li + 1
                  /\ pc' = AfterLanguage
                  /\ UNCHANGED returned
  /\ UNCHANGED <<slides, disk0, engvars, language_list, slide_data, fetched, pages>>

\* construct_channel returns the channel
Return ==
  /\ pc = "return"
  /\ pc' = "done"
  /\ returned' = TRUE
  /\ UNCHANGED <<runvars, requests, channel, engvars, langvars, fetched, pages>>

Next ==
  \/ EngPage
  \/ EngPageFails
  \/ EngAddTopic
  \/ EngFetchAssets
  \/ EngFetchAssetsFails
  \/ EngAssetPng
  \/ EngAssetMp4
  \/ EngAssetMp4Fails
  \/ EngAssetOther
  \/ EngFinishEmpty
  \/ EngFinish
  \/ LangPage
  \/ LangPageFails
  \/ LangFetch
  \/ LangFetchFails
  \/ LangKeyError
  \/ LangSkip
  \/ LangAdd
  \/ Return

Spec == Init /\ [][Next]_vars

TypeOK ==
  /\ pc \in {"eng_page", "eng_topic", "eng_fetch", "eng_asset", "lang_page",
             "lang_fetch", "lang_build", "return", "done", "failed"}
  /\ slides \in BOOLEAN
  /\ returned \in BOOLEAN

(* ======================================================================= *)
(* Properties                                                              *)
(* ======================================================================= *)
IsPng(a) == a.extension = "png"
IsMp4(a) == a.extension = "mp4"
IsOther(a) == a.extension \notin {"png", "mp4"}
IsVideo(n) == n.kind = "video"
IsShow(n) == n.kind \in {"slideshow", "document"}
IsTopic(n) == n.kind = "topic"

Prefix(s, n) == SubSeq(s, 1, n)

\* the topics whose scrape_collection_files call has returned
FinishedTopics == { i \in 1..Len(channel) : i < ti /\ IsTopic(channel[i]) }

\* the images a slideshow node shows, the pages of the PDF a document node references
ShownImages(n) ==
  IF n.kind = "slideshow"
  THEN [k \in 1..(Len(n.files) - 1) |-> n.files[k + 1].src]
  ELSE disk[n.files[2].src]

\* successful attachment requests for the assets of a section
AttachmentReads(section) ==
  SelectSeq(requests, LAMBDA r : r.url.api = "attachments" /\ r.url.section = section /\ r.ok)

\* the asset loop of the current topic, when ai - 1 assets are processed
LoopCounts ==
  pc = "eng_asset" =>
    LET done == Prefix(assets, ai - 1)
        topic == channel[Len(channel)]
    IN /\ Len(SelectSeq(topic.children, IsVideo)) = Len(SelectSeq(done, IsMp4))
       /\ Len(AttachmentReads(topic.source_id)) = Len(SelectSeq(done, IsMp4))
       /\ Len(images) = Len(SelectSeq(done, IsPng))
       /\ Len(SelectSeq(topic.children, IsShow)) = 0

\* warnings logged: one per asset of another extension, in the topics read so far
RECURSIVE OtherCount(_)
OtherCount(f) ==
  IF f = <<>> THEN 0 ELSE Len(SelectSeq(f[1].data, IsOther)) + OtherCount(Tail(f))

VideoCounts ==
  \A i \in FinishedTopics :
    /\ Len(SelectSeq(channel[i].children, IsVideo)) = Len(SelectSeq(fetched[i].data, IsMp4))
    /\ Len(AttachmentReads(channel[i].source_id)) = Len(SelectSeq(fetched[i].data, IsMp4))
    /\ Len(channel[i].children) =
         Len(SelectSeq(fetched[i].data, IsMp4))
         + (IF Len(SelectSeq(fetched[i].data, IsPng)) > 0 THEN 1 ELSE 0)

\* C1 as stated: scrape_collection_files branches on the extension only; each
\* mp4 asset adds one video node after one attachments request, each png asset
\* one image and no node, any other asset nothing but a warning; after the call
\* the topic has as many video nodes as the list had mp4 assets and the
\* slideshow/PDF has as many images as the list had png assets.
C1_AsStated ==
  /\ LoopCounts
  /\ VideoCounts
  /\ \A i \in FinishedTopics :
       \A k \in 1..Len(channel[i].children) :
         IsShow(channel[i].children[k]) =>
           Len(ShownImages(channel[i].children[k])) = Len(SelectSeq(fetched[i].data, IsPng))

\* C1 as amended: the same, except that the count of images is the one of the
\* slideshow node, or of the PDF when this run wrote it; a PDF the run found
\* at the path keeps its pages, however many png assets the list has.
C1_ExtensionBranching ==
  /\ LoopCounts
  /\ VideoCounts
  /\ pc \in {"lang_page", "return", "done"} => warnings = OtherCount(Prefix(fetched, Len(topic_list)))
  /\ \A i \in FinishedTopics :
       \A k \in 1..Len(channel[i].children) :
         LET n == channel[i].children[k]
         IN IsShow(n) =>
              IF n.kind = "document" /\ n.files[2].src \in DOMAIN disk0
              THEN ShownImages(n) = disk0[n.files[2].src]
              ELSE Len(ShownImages(n)) = Len(SelectSeq(fetched[i].data, IsPng))

\* a topic is finished whose list held an asset of another extension and then
\* an mp4, which has its video node; a topic is finished whose PDF this run wrote
C1_Witness ==
  /\ \E i \in FinishedTopics :
       /\ Len(fetched[i].data) = 2
       /\ IsOther(fetched[i].data[1])
       /\ IsMp4(fetched[i].data[2])
       /\ Len(SelectSeq(channel[i].children, IsVideo)) = 1
  /\ \E i \in FinishedTopics :
       \E k \in 1..Len(channel[i].children) :
         /\ channel[i].children[k].kind = "document"
         /\ channel[i].children[k].files[2].src \notin DOMAIN disk0

\* P holds of every slideshow or document node of the tree
AllShows(P(_)) ==
  \A i \in 1..Len(channel) :
    /\ IsShow(channel[i]) => P(channel[i])
    /\ \A k \in 1..Len(channel[i].children) :
         IsShow(channel[i].children[k]) => P(channel[i].children[k])

Requested(u) == \E k \in 1..Len(requests) : requests[k].url = u

\* downloads of slide images of a section
ImageReads(section) ==
  SelectSeq(requests, LAMBDA r : r.url.api = "cdn" /\ r.url.section = section)

DocumentsPath(source_id) == [dir |-> "documents", md5 |-> source_id]

\* C2: without '--slides', create_slideshow downloads the slide images and
\* writes the PDF only when no file exists at documents/<md5(source_id)>.pdf;
\* a file found there is left unchanged and no slide image is downloaded, and
\* the document node references the path all the same.  Nothing else is
\* skipped: a run that returns has read both pages, every section's asset
\* list and every video's attachment record, whatever the folder holds.
C2_PdfSkip ==
  /\ ~slides =>
       /\ \A p \in DOMAIN disk0 : p \in DOMAIN disk /\ disk[p] = disk0[p]
       /\ AllShows(LAMBDA n :
            /\ n.kind = "document"
            /\ n.files[2] = [type |-> "document", src |-> DocumentsPath(n.source_id), caption |-> ""]
            /\ DocumentsPath(n.source_id) \in DOMAIN disk
            /\ IF DocumentsPath(n.source_id) \in DOMAIN disk0
               THEN Len(ImageReads(n.source_id.section)) = 0
               ELSE /\ Len(ImageReads(n.source_id.section)) = Len(disk[DocumentsPath(n.source_id)])
                    /\ \A k \in 1..Len(disk[DocumentsPath(n.source_id)]) :
                         ImageReads(n.source_id.section)[k] =
                           [url |-> disk[DocumentsPath(n.source_id)][k], ok |-> TRUE])
       /\ \A k \in 1..Len(requests) :
            requests[k].url.api = "cdn" =>
              \A p \in DOMAIN disk0 : p.md5.section # requests[k].url.section
  /\ pc = "done" =>
       /\ Requested([api |-> "page", collection |-> "covid-19", section |-> "", asset |-> 0, file |-> ""])
       /\ Requested([api |-> "page", collection |-> "covid-19-multiple-languages", section |-> "", asset |-> 0, file |-> ""])
       /\ \A i \in 1..Len(pages[1]) :
            pages[1][i].id \notin {262354, 261412} =>
              Requested([api |-> "assets", collection |-> "ck-english",
                         section |-> pages[1][i].section_key, asset |-> 0, file |-> "search="])
       /\ \A j \in 1..Len(pages[2]) :
            Requested([api |-> "assets", collection |-> "qac6i4-foozd4-68u325",
                       section |-> pages[2][j].section_key, asset |-> 0, file |-> "strict_search=false"])
       /\ \A i \in FinishedTopics : \A a \in 1..Len(fetched[i].data) :
            IsMp4(fetched[i].data[a]) =>
              Requested([api |-> "attachments", collection |-> "", section |-> fetched[i].data[a].id.section,
                         asset |-> fetched[i].data[a].id.pos, file |-> ""])

\* a run without '--slides' has returned; it found a PDF for a topic whose
\* list now holds two png assets, and the topic's document references it
C2_Witness ==
  /\ pc = "done" /\ ~slides
  /\ \E i \in FinishedTopics :
       /\ Len(SelectSeq(fetched[i].data, IsPng)) = 2
       /\ \E k \in 1..Len(channel[i].children) :
            /\ channel[i].children[k].kind = "document"
            /\ channel[i].children[k].files[2].src \in DOMAIN disk0

\* C3: a group of images becomes a slideshow node if and only if '--slides' is
\* among the arguments, and a document node otherwise, never both and never
\* neither; with '--slides' no slide image is downloaded and no PDF is created
\* or modified; the choice is the same for every group of the run.
C3_SlidesOrPdf ==
  /\ AllShows(LAMBDA n : (n.kind = "slideshow") <=> slides)
  /\ slides => disk = disk0 /\ \A k \in 1..Len(requests) : requests[k].url.api # "cdn"
  /\ \A i \in FinishedTopics :
       Len(SelectSeq(channel[i].children, IsShow)) =
         IF Len(SelectSeq(fetched[i].data, IsPng)) > 0 THEN 1 ELSE 0
  /\ pc \in {"return", "done"} =>
       Len(SelectSeq(channel, IsShow)) =
         Len(SelectSeq(SubSeq(fetched, Len(topic_list) + 1, Len(fetched)), LAMBDA f : Len(f.data) > 0))

\* a run with '--slides' has returned a slideshow in a topic and a slideshow
\* of a language
C3_Witness ==
  /\ pc = "done" /\ slides
  /\ \E i \in 1..Len(channel) : channel[i].kind = "slideshow"
  /\ \E i \in 1..Len(channel) : \E k \in 1..Len(channel[i].children) :
       channel[i].children[k].kind = "slideshow"

\* C4: the tree has at most two levels below the channel: a child of the
\* channel is a topic node (English collection) or a slideshow/document leaf
\* (multi-language collection); a child of a topic is a video, slideshow or
\* document leaf; no topic is a child of a topic and no leaf has children.
C4_TwoLevels ==
  \A i \in 1..Len(channel) :
    /\ channel[i].kind \in {"topic", "slideshow", "document"}
    /\ IsTopic(channel[i]) =>
         /\ channel[i].source_id \in {"e-a", "e-b", "e-x1", "e-x2"}
         /\ \A k \in 1..Len(channel[i].children) :
              /\ channel[i].children[k].kind \in {"video", "slideshow", "document"}
              /\ channel[i].children[k].children = <<>>
    /\ ~IsTopic(channel[i]) =>
         /\ channel[i].children = <<>>
         /\ channel[i].source_id.collection = "qac6i4-foozd4-68u325"

\* the returned tree has a topic with a video and a slideshow/document, and a
\* language leaf
C4_Witness ==
  /\ pc = "done"
  /\ \E i \in 1..Len(channel) : IsTopic(channel[i]) /\ Len(channel[i].children) = 2
  /\ \E i \in 1..Len(channel) : IsShow(channel[i])

\* C5 as stated: every asset a section holds on the site is processed, however
\* many there are and whatever the API's page size is.
C5_EveryAssetProcessed ==
  \A k \in 1..Len(fetched) : Len(fetched[k].data) = fetched[k].onSite

\* the URL of the image shown for an asset
View2x(a) ==
  [api |-> "cdn", collection |-> "", section |-> a.id.section, asset |-> a.id.pos,
   file |-> "view@2x.png"]

\* the response a language node was built from
ResponseOf(n) ==
  LET k == CHOOSE k \in 1..Len(fetched) : fetched[k].url = n.source_id
  IN fetched[k].data

\* the node n shows the assets as, in their order, with the given captions
ShowsInOrder(n, as, Caption(_)) ==
  /\ Len(as) > 0
  /\ n.files[1] = [type |-> "thumbnail", src |-> View2x(as[1]), caption |-> ""]
  /\ n.kind = "slideshow" =>
       /\ Len(n.files) = Len(as) + 1
       /\ \A k \in 1..Len(as) :
            n.files[k + 1] = [type |-> "slide", src |-> View2x(as[k]), caption |-> Caption(as[k])]
  /\ n.kind = "document" /\ n.files[2].src \notin DOMAIN disk0 =>
       disk[n.files[2].src] = [k \in 1..Len(as) |-> View2x(as[k])]

\* C6: the slides of a slideshow node, and the pages of a PDF when it is
\* written, are the section's image assets in the order of the API response,
\* none missing, none twice; the thumbnail is the first of them; a slide of
\* the English collection has its asset's name as caption, a slide of the
\* multi-language collection the empty caption.
C6_SlideOrder ==
  \A i \in 1..Len(channel) :
    /\ IsShow(channel[i]) =>
         ShowsInOrder(channel[i], ResponseOf(channel[i]), LAMBDA a : "")
    /\ \A k \in 1..Len(channel[i].children) :
         IsShow(channel[i].children[k]) =>
           ShowsInOrder(channel[i].children[k], SelectSeq(fetched[i].data, IsPng),
                        LAMBDA a : a.name)

\* a topic has a slideshow of two slides, captioned with the assets' names
C6_Witness ==
  \E i \in 1..Len(channel) : \E k \in 1..Len(channel[i].children) :
    /\ channel[i].children[k].kind = "slideshow"
    /\ Len(channel[i].children[k].files) = 3
    /\ channel[i].children[k].files[3].caption = fetched[i].data[2].name

IsEnglishRead(r) ==
  \/ r.url.collection \in {"covid-19", "ck-english"}
  \/ r.url.api = "attachments"
  \/ r.url.api = "cdn" /\ r.url.section \in {"e-a", "e-b", "e-x1", "e-x2"}

Kept(t) == t.id \notin {262354, 261412}

\* position of a language node's section in the page's list
LangPos(n) ==
  CHOOSE j \in 1..Len(language_list) : language_list[j].section_key = n.source_id.section

\* C7: the English collection is processed first, whole, then the
\* multi-language one: every read and node of the English collection comes
\* before the first read of the multi-language collection; in the channel the
\* topics precede the language nodes, each group in the order of its page's
\* list; a section with id 262354 or 261412 is no topic and its asset list is
\* never read, every other English section is exactly one topic.
C7_EnglishFirst ==
  /\ \A i, j \in 1..Len(requests) :
       i < j /\ IsEnglishRead(requests[j]) => IsEnglishRead(requests[i])
  /\ (\E k \in 1..Len(requests) : ~IsEnglishRead(requests[k])) =>
       /\ ti = Len(topic_list) + 1
       /\ Len(SelectSeq(channel, IsTopic)) = Len(SelectSeq(pages[1], Kept))
       /\ Len(fetched) >= Len(topic_list)
  /\ \A i, j \in 1..Len(channel) :
       i < j /\ IsTopic(channel[j]) => IsTopic(channel[i])
  /\ pages # <<>> =>
       /\ \A i \in 1..Len(SelectSeq(channel, IsTopic)) :
            /\ i <= Len(SelectSeq(pages[1], Kept))
            /\ channel[i].source_id = SelectSeq(pages[1], Kept)[i].section_key
            /\ channel[i].title = SelectSeq(pages[1], Kept)[i].name
       /\ \A k \in 1..Len(requests) :
            requests[k].url.section \notin {"e-x1", "e-x2"}
       /\ pc \in {"lang_page", "lang_fetch", "lang_build", "return", "done"} =>
            Len(SelectSeq(channel, IsTopic)) = Len(SelectSeq(pages[1], Kept))
  /\ \A i, j \in 1..Len(channel) :
       i < j /\ IsShow(channel[i]) => LangPos(channel[i]) < LangPos(channel[j])

\* the run has returned a topic followed by a language node, having read the
\* topic's asset list before the multi-language page
C7_Witness ==
  /\ pc = "done"
  /\ Len(channel) = 2 /\ IsTopic(channel[1]) /\ IsShow(channel[2])
  /\ Len(requests) >= 4
  /\ requests[2].url.collection = "ck-english"
  /\ ~IsEnglishRead(requests[Len(requests)])

\* C8: a failing page read, asset-list read, attachment read, image download
\* or parse step ends construct_channel without a channel: the step is not
\* tried again, the section or asset is not skipped to go on with the next,
\* and no partly built channel is returned.
C8_NoRecovery ==
  /\ \A k \in 1..Len(requests) :
       ~requests[k].ok => k = Len(requests) /\ pc = "failed"
  /\ \A i, j \in 1..Len(requests) : i # j => requests[i].url # requests[j].url
  /\ pc = "failed" => ~returned
  /\ returned =>
       /\ pc = "done"
       /\ ti = Len(topic_list) + 1
       /\ li = Len(language_list) + 1
       /\ Len(fetched) = Len(topic_list) + Len(language_list)
       /\ Len(SelectSeq(channel, IsTopic)) = Len(topic_list)

\* the run has failed on the download of a slide image, with a topic already
\* in the channel, and has returned nothing
C8_Witness ==
  /\ pc = "failed" /\ ~returned
  /\ Len(channel) >= 1
  /\ Len(requests) >= 1
  /\ ~requests[Len(requests)].ok
  /\ requests[Len(requests)].url.api = "cdn"

VideoUrl(a) ==
  [api |-> "cdn", collection |-> "", section |-> a.id.section, asset |-> a.id.pos,
   file |-> "video.mp4"]

\* C9: a topic has at most one slideshow/document child, its last one: the
\* videos precede it, in asset order, even when png assets precede mp4 assets
\* in the response; a slideshow/document exists only for a non-empty list of
\* images; a topic is in the channel before its assets are read and stays
\* there when the section yields neither video nor image.
C9_ShowLast ==
  /\ \A i \in 1..Len(channel) :
       /\ Len(SelectSeq(channel[i].children, IsShow)) <= 1
       /\ \A k \in 1..Len(channel[i].children) :
            IsShow(channel[i].children[k]) => k = Len(channel[i].children)
  /\ \A i \in FinishedTopics :
       LET mp4s == SelectSeq(fetched[i].data, IsMp4)
           videos == SelectSeq(channel[i].children, IsVideo)
       IN /\ Len(videos) = Len(mp4s)
          /\ \A k \in 1..Len(mp4s) :
               /\ videos[k].source_id = VideoUrl(mp4s[k])
               /\ videos[k].title = mp4s[k].name
               /\ channel[i].children[k] = videos[k]
          /\ Len(SelectSeq(channel[i].children, IsShow)) = 1
               <=> Len(SelectSeq(fetched[i].data, IsPng)) > 0
  /\ AllShows(LAMBDA n : Len(n.files) >= 2)
  /\ \A i \in 1..Len(channel) : IsShow(channel[i]) => Len(ResponseOf(channel[i])) > 0
  /\ \A k \in 1..Len(requests) :
       requests[k].url.api = "assets" /\ requests[k].url.collection = "ck-english" =>
         \E i \in 1..Len(channel) :
           IsTopic(channel[i]) /\ channel[i].source_id = requests[k].url.section
  /\ pc = "done" => Len(SelectSeq(channel, IsTopic)) = Len(SelectSeq(pages[1], Kept))

\* the returned channel has a topic whose list was a png then an mp4, with the
\* video before the slideshow/document, and a topic without children
C9_Witness ==
  /\ pc = "done"
  /\ \E i \in FinishedTopics :
       /\ Len(fetched[i].data) = 2
       /\ IsPng(fetched[i].data[1]) /\ IsMp4(fetched[i].data[2])
       /\ IsVideo(channel[i].children[1]) /\ IsShow(channel[i].children[2])
  /\ \E i \in FinishedTopics : channel[i].children = <<>>

\* the section of the page a language node was built from
SectionOf(n) == language_list[LangPos(n)]

IsUnknown(section) ==
  section.name \notin {"Afrikaans", "Arabic", "English", "French", "Hindi", "isiXhosa",
                       "isiZulu", "Kiswahili", "Mandarin Chinese - simple",
                       "Mandarin Chinese - Traditional", "Portuguese", "Setswana",
                       "Spanish", "Tetun"}

\* C10: a language section whose name LANGUAGE_MAP maps to a code yields a
\* node with that code and the language's native name as title; one whose name
\* maps to None (Tetun) a node without language code, titled with the
\* section's name; one whose name is no key of the table makes the run fail,
\* once its asset list is read, even without slides: it is neither skipped
\* nor given a default language.  The slideshow/document nodes of the English
\* collection have the code 'en'.
C10_LanguageMap ==
  /\ \A i \in 1..Len(channel) :
       /\ IsShow(channel[i]) =>
            /\ SectionOf(channel[i]).name = "French" =>
                 channel[i].language = "fr" /\ channel[i].title = "Francais"
            /\ SectionOf(channel[i]).name = "Tetun" =>
                 channel[i].language = "None" /\ channel[i].title = "Tetun"
            /\ SectionOf(channel[i]).name \in {"French", "Tetun"}
       /\ \A k \in 1..Len(channel[i].children) :
            IsShow(channel[i].children[k]) => channel[i].children[k].language = "en"
  /\ \A j \in 1..Len(language_list) :
       IsUnknown(language_list[j]) =>
         /\ li <= j
         /\ pc \notin {"return", "done"}
         /\ li = j /\ pc \notin {"lang_fetch", "lang_build"} =>
              /\ pc = "failed"
              /\ requests[Len(requests)].url.section = language_list[j].section_key
              /\ requests[Len(requests)].ok => Len(fetched) = Len(topic_list) + j

\* the run has failed on a section named Klingon, after reading its asset
\* list, which held no asset
C10_Witness ==
  /\ pc = "failed"
  /\ li <= Len(language_list)
  /\ IsUnknown(language_list[li])
  /\ requests[Len(requests)].ok
  /\ Len(fetched) = Len(topic_list) + li
  /\ fetched[Len(fetched)].data = <<>>

====
